---- MODULE Spec2Model ----
(***************************************************************************)
(* kmb-eta-cli (src/src/main.rs): one invocation of the command-line       *)
(* client.  Two spawned tasks load the stop and the route directory, main  *)
(* joins both, dispatches one query (route, eta, all) and exits.           *)
(*                                                                         *)
(* Text is a sequence of one-character strings, so that to_uppercase,      *)
(* parse::<i64>, to_string and format! are computed, not assumed.          *)
(* A JSON value is a record [t, s, n]: t is "null", "str" or "num", s the  *)
(* text of a string, n the value of a number.  A missing key of an object  *)
(* reads as null, as serde_json's Index does.                              *)
(* A JSON value holding a timestamp is [t, rfc, wall, off]: rfc says       *)
(* whether the text is RFC 3339, wall is its date-time read as seconds,    *)
(* off its UTC offset in seconds.                                          *)
(***************************************************************************)
EXTENDS Integers, Sequences, FiniteSets, TLC

VARIABLES
    upstream,           \* what the four endpoints of data.etabus.gov.hk answer
    cli,                \* the parsed command line
    STOP_ID_NAMES,      \* Mutex<HashMap<stop_id, StopIdName>>
    ROUTES,             \* Mutex<HashMap<route, Vec<RouteInfo>>>
    task_load_names,    \* the spawned stop-load task
    task_load_routes,   \* the spawned route-load task
    task_route_ids,     \* the spawned route-stop fetch of an eta query
    task_stop_eta,      \* the spawned arrival-feed fetch of an eta query
    main_pc,            \* where main is
    query,              \* the arm of `match cli.command` main has entered
    eta,                \* the locals of search_route_eta
    requests,           \* the endpoints a GET was sent to
    stdout,             \* what println! has written
    exit                \* how main ended

vars == <<upstream, cli, STOP_ID_NAMES, ROUTES, task_load_names, task_load_routes,
          task_route_ids, task_stop_eta, main_pc, query, eta, requests, stdout, exit>>

----------------------------------------------------------------------------
(* Bounds of the model *)

MaxStops == 2          \* records of a stop listing
MaxRoutes == 2         \* records of a route listing
MaxRouteStops == 2     \* entries of a route-stop feed
MaxEtaEntries == 2     \* entries of an arrival feed
MaxMinutes == 2        \* minutes an arrival is ahead of the feed (and large ones)

----------------------------------------------------------------------------
(* Text *)

Digits == <<"0", "1", "2", "3", "4", "5", "6", "7", "8", "9">>
LowerCase == <<"a", "b", "c", "d", "e", "f", "g", "h", "i", "j", "k", "l", "m",
               "n", "o", "p", "q", "r", "s", "t", "u", "v", "w", "x", "y", "z">>
UpperCase == <<"A", "B", "C", "D", "E", "F", "G", "H", "I", "J", "K", "L", "M",
               "N", "O", "P", "Q", "R", "S", "T", "U", "V", "W", "X", "Y", "Z">>

IsDigit(c) == \E d \in 1..10 : Digits[d] = c
DigitVal(c) == (CHOOSE d \in 1..10 : Digits[d] = c) - 1

\* str::to_uppercase, on ASCII text
UpperChar(c) ==
    IF \E k \in 1..26 : LowerCase[k] = c
    THEN UpperCase[CHOOSE k \in 1..26 : LowerCase[k] = c]
    ELSE c
to_uppercase(s) == [i \in 1..Len(s) |-> UpperChar(s[i])]

RECURSIVE DigitsValue(_)
DigitsValue(s) ==
    IF s = <<>> THEN 0
    ELSE 10 * DigitsValue(SubSeq(s, 1, Len(s) - 1)) + DigitVal(s[Len(s)])

\* str::parse::<i64>: an optional sign, then one digit or more.  [ok, v]
parse_i64(s) ==
    LET signed == s # <<>> /\ s[1] \in {"+", "-"}
        body == IF signed THEN Tail(s) ELSE s
        ok == body # <<>> /\ \A i \in 1..Len(body) : IsDigit(body[i])
    IN  [ok |-> ok,
         v |-> IF ~ok THEN 0
               ELSE IF s[1] = "-" THEN 0 - DigitsValue(body) ELSE DigitsValue(body)]

RECURSIVE NatToString(_)
NatToString(n) ==
    IF n < 10 THEN <<Digits[n + 1]>>
    ELSE NatToString(n \div 10) \o <<Digits[(n % 10) + 1]>>

\* i64::to_string
to_string(n) == IF n < 0 THEN <<"-">> \o NatToString(0 - n) ELSE NatToString(n)

\* the {:>w} of format!: right-aligned in at least w characters
PadLeft(s, w) == IF Len(s) >= w THEN s ELSE [i \in 1..(w - Len(s)) |-> " "] \o s

\* i64 `/` and `%`: truncating towards zero
RustDiv(a, b) == IF a >= 0 THEN a \div b ELSE 0 - ((0 - a) \div b)
RustRem(a, b) == a - b * RustDiv(a, b)

LEAVING == <<"L", "E", "A", "V", "I", "N", "G">>
EmptyString == <<>>
Outbound == <<"o", "u", "t", "b", "o", "u", "n", "d">>
Inbound == <<"i", "n", "b", "o", "u", "n", "d">>

----------------------------------------------------------------------------
(* JSON *)

JNull == [t |-> "null", s |-> <<>>, n |-> 0]
JStr(s) == [t |-> "str", s |-> s, n |-> 0]
JNum(n) == [t |-> "num", s |-> <<>>, n |-> n]

TsNull == [t |-> "null", rfc |-> FALSE, wall |-> 0, off |-> 0]
TsNum == [t |-> "num", rfc |-> FALSE, wall |-> 0, off |-> 0]
TsText == [t |-> "str", rfc |-> FALSE, wall |-> 0, off |-> 0]
TsRfc(wall, off) == [t |-> "str", rfc |-> TRUE, wall |-> wall, off |-> off]

\* the closure parse_timestmap: the instant in seconds since the epoch.  [ok, v]
parse_timestmap(timestamp_val) ==
    IF timestamp_val.t = "str" /\ timestamp_val.rfc
    THEN [ok |-> TRUE, v |-> timestamp_val.wall - timestamp_val.off]
    ELSE [ok |-> FALSE, v |-> 0]

\* mutant of eta_repr: `>=` in place of `>`
eta_repr_leaving_late(eta_timestamp, api_timestamp) ==
    IF eta_timestamp.ok
    THEN LET eta_diff == eta_timestamp.v - api_timestamp
         IN  IF eta_diff >= 0
             THEN PadLeft(to_string(RustDiv(eta_diff, 60)), 3) \o <<"m", " ">>
                  \o PadLeft(to_string(RustRem(eta_diff, 60)), 2) \o <<"s">>
             ELSE LEAVING
    ELSE EmptyString

\* the `match eta_timestamp` of search_route_eta: one cell of the table
eta_repr(eta_timestamp, api_timestamp) ==
    IF eta_timestamp.ok
    THEN LET eta_diff == eta_timestamp.v - api_timestamp
         IN  IF eta_diff > 0
             THEN PadLeft(to_string(RustDiv(eta_diff, 60)), 3) \o <<"m", " ">>
                  \o PadLeft(to_string(RustRem(eta_diff, 60)), 2) \o <<"s">>
             ELSE LEAVING
    ELSE EmptyString

\* mutant of dir_match: the direction of the query is not looked at
dir_match_any(direction, dir) == dir \in {<<"O">>, <<"I">>}

\* the `match direction` of search_route_eta
dir_match(direction, dir) ==
    IF direction = Outbound THEN dir = <<"O">>
    ELSE IF direction = Inbound THEN dir = <<"I">>
    ELSE FALSE

\* the `match data["bound"]` of load_routes
bound_of(token) ==
    IF token = <<"O">> THEN Outbound
    ELSE IF token = <<"I">> THEN Inbound
    ELSE EmptyString

----------------------------------------------------------------------------
(* HashMap and Mutex *)

EmptyMap == [k \in {} |-> 0]
HasKey(m, k) == k \in DOMAIN m
Insert(m, k, v) == [x \in (DOMAIN m) \cup {k} |-> IF x = k THEN v ELSE m[x]]

NewMutex == [map |-> EmptyMap, held |-> FALSE, poisoned |-> FALSE]

----------------------------------------------------------------------------
(* Endpoints of HKGovAPI *)

STOP_URL == "v1/transport/kmb/stop"
ROUTE_STOP_URL == "v1/transport/kmb/route-stop"
ROUTE_ETA_URL == "v1/transport/kmb/route-eta"
ROUTE_URL == "v1/transport/kmb/route"

\* body["data"].as_array(): the elements, when it is an array
DataOf(body) == IF body.is_array THEN body.data ELSE <<>>

----------------------------------------------------------------------------
(* Tasks: pc is "idle" (not spawned), "send", "lock", "for_each" or          *)
(* "finished"; res is "Ok", "Err" (the task returned Err) or "Panic".        *)

Task(pc) == [pc |-> pc, i |-> 1, res |-> "Running"]
Finished(res) == [pc |-> "finished", i |-> 1, res |-> res]

Running == [kind |-> "Running", error |-> ""]
Exit(kind, error) == [kind |-> kind, error |-> error]

----------------------------------------------------------------------------
(* load_names *)

\* mutant of stop_record_ok: unwrap_or("") in place of unwrap()
stop_record_lenient(data) == TRUE

\* the two as_str().unwrap() of the closure: both fields are strings
stop_record_ok(data) == data.stop.t = "str" /\ data.name_tc.t = "str"

\* GET .../stop; `?` returns the transport's error
LoadNamesSend ==
    /\ task_load_names.pc = "send"
    /\ requests' = requests \cup {STOP_URL}
    /\ task_load_names' = IF upstream.stop.ok THEN Task("lock") ELSE Finished("Err")
    /\ UNCHANGED <<upstream, cli, STOP_ID_NAMES, ROUTES, task_load_routes, task_route_ids,
                   task_stop_eta, main_pc, query, eta, stdout, exit>>

\* STOP_ID_NAMES.lock().unwrap()
LoadNamesLock ==
    /\ task_load_names.pc = "lock"
    /\ ~STOP_ID_NAMES.held
    /\ IF STOP_ID_NAMES.poisoned
       THEN /\ task_load_names' = Finished("Panic")
            /\ UNCHANGED STOP_ID_NAMES
       ELSE /\ task_load_names' = Task("for_each")
            /\ STOP_ID_NAMES' = [STOP_ID_NAMES EXCEPT !.held = TRUE]
    /\ UNCHANGED <<upstream, cli, ROUTES, task_load_routes, task_route_ids, task_stop_eta,
                   main_pc, query, eta, requests, stdout, exit>>

\* one turn of the for_each: a record without its two strings panics, and the
\* guard dropped by the unwinding poisons the mutex
LoadNamesInsert ==
    /\ task_load_names.pc = "for_each"
    /\ task_load_names.i <= Len(DataOf(upstream.stop))
    /\ LET data == DataOf(upstream.stop)[task_load_names.i]
       IN  IF stop_record_ok(data)
           THEN /\ STOP_ID_NAMES' =
                       [STOP_ID_NAMES EXCEPT
                           !.map = Insert(@, data.stop.s,
                                          [stop_id |-> data.stop.s, stop_name |-> data.name_tc.s])]
                /\ task_load_names' = [task_load_names EXCEPT !.i = @ + 1]
           ELSE /\ STOP_ID_NAMES' = [STOP_ID_NAMES EXCEPT !.held = FALSE, !.poisoned = TRUE]
                /\ task_load_names' = Finished("Panic")
    /\ UNCHANGED <<upstream, cli, ROUTES, task_load_routes, task_route_ids, task_stop_eta,
                   main_pc, query, eta, requests, stdout, exit>>

\* Ok(()): the guard is dropped
LoadNamesReturn ==
    /\ task_load_names.pc = "for_each"
    /\ task_load_names.i > Len(DataOf(upstream.stop))
    /\ STOP_ID_NAMES' = [STOP_ID_NAMES EXCEPT !.held = FALSE]
    /\ task_load_names' = Finished("Ok")
    /\ UNCHANGED <<upstream, cli, ROUTES, task_load_routes, task_route_ids, task_stop_eta,
                   main_pc, query, eta, requests, stdout, exit>>

----------------------------------------------------------------------------
(* load_routes *)

\* the unwraps of the closure: four strings, and a service type that parses
route_record_ok(data) ==
    /\ data.route.t = "str"
    /\ data.service_type.t = "str"
    /\ parse_i64(data.service_type.s).ok
    /\ data.orig_tc.t = "str"
    /\ data.dest_tc.t = "str"
    /\ data.bound.t = "str"

RouteInfoOf(data) ==
    [route |-> data.route.s,
     service_type |-> parse_i64(data.service_type.s).v,
     direction |-> bound_of(data.bound.s),
     orig |-> data.orig_tc.s,
     dest |-> data.dest_tc.s]

\* the key a record is stored under
route_key(data) == data.route.s

\* get_mut(route) ... push, else insert(route, vec![..])
PushRoute(m, data) ==
    IF HasKey(m, route_key(data))
    THEN [m EXCEPT ![route_key(data)] = Append(@, RouteInfoOf(data))]
    ELSE Insert(m, route_key(data), <<RouteInfoOf(data)>>)

LoadRoutesSend ==
    /\ task_load_routes.pc = "send"
    /\ requests' = requests \cup {ROUTE_URL}
    /\ task_load_routes' = IF upstream.route.ok THEN Task("lock") ELSE Finished("Err")
    /\ UNCHANGED <<upstream, cli, STOP_ID_NAMES, ROUTES, task_load_names, task_route_ids,
                   task_stop_eta, main_pc, query, eta, stdout, exit>>

\* ROUTES.lock().unwrap(), then body["data"].as_array().unwrap()
LoadRoutesLock ==
    /\ task_load_routes.pc = "lock"
    /\ ~ROUTES.held
    /\ IF ROUTES.poisoned
       THEN /\ task_load_routes' = Finished("Panic")
            /\ UNCHANGED ROUTES
       ELSE IF ~upstream.route.is_array
       THEN /\ task_load_routes' = Finished("Panic")
            /\ ROUTES' = [ROUTES EXCEPT !.poisoned = TRUE]
       ELSE /\ task_load_routes' = Task("for_each")
            /\ ROUTES' = [ROUTES EXCEPT !.held = TRUE]
    /\ UNCHANGED <<upstream, cli, STOP_ID_NAMES, task_load_names, task_route_ids, task_stop_eta,
                   main_pc, query, eta, requests, stdout, exit>>

LoadRoutesInsert ==
    /\ task_load_routes.pc = "for_each"
    /\ task_load_routes.i <= Len(upstream.route.data)
    /\ LET data == upstream.route.data[task_load_routes.i]
       IN  IF route_record_ok(data)
           THEN /\ ROUTES' = [ROUTES EXCEPT !.map = PushRoute(@, data)]
                /\ task_load_routes' = [task_load_routes EXCEPT !.i = @ + 1]
           ELSE /\ ROUTES' = [ROUTES EXCEPT !.held = FALSE, !.poisoned = TRUE]
                /\ task_load_routes' = Finished("Panic")
    /\ UNCHANGED <<upstream, cli, STOP_ID_NAMES, task_load_names, task_route_ids, task_stop_eta,
                   main_pc, query, eta, requests, stdout, exit>>

LoadRoutesReturn ==
    /\ task_load_routes.pc = "for_each"
    /\ task_load_routes.i > Len(upstream.route.data)
    /\ ROUTES' = [ROUTES EXCEPT !.held = FALSE]
    /\ task_load_routes' = Finished("Ok")
    /\ UNCHANGED <<upstream, cli, STOP_ID_NAMES, task_load_names, task_route_ids, task_stop_eta,
                   main_pc, query, eta, requests, stdout, exit>>

----------------------------------------------------------------------------
(* search_route_info *)

\* mutant of retained: the service type is not compared
retained_by_direction(r, d, t) == r.direction = d

\* the predicate of route_info.retain
retained(r, d, t) == r.direction = d /\ r.service_type = t

\* the key the directory is read under
lookup_key(route) == route

\* the variants found: get(route), cloned, and retained when both direction and
\* service type are given.  [ok, route_info]: ok is false where the code returns Err
search_route_info(routes, route, filtered, d, t) ==
    LET found == IF HasKey(routes, lookup_key(route)) THEN routes[lookup_key(route)] ELSE <<>>
        route_info == IF filtered
                      THEN SelectSeq(found, LAMBDA r : retained(r, d, t))
                      ELSE found
    IN  [ok |-> route_info # <<>>, route_info |-> route_info]

Table(rows) == [kind |-> "table", rows |-> rows]
DebugLine == [kind |-> "time elapsed", rows |-> <<>>]

----------------------------------------------------------------------------
(* main *)

\* mutant of Joined: the handle is not awaited
JoinedWithoutWaiting(task) == TRUE

\* JoinHandle.await: the task has run to its end
Joined(task) == task.pc = "finished"

\* task_load_names.await?.expect("failed to load stop names!")
JoinNames ==
    /\ main_pc = "join_names"
    /\ Joined(task_load_names)
    /\ IF task_load_names.res = "Panic"
       THEN main_pc' = "exited" /\ exit' = Exit("Err", "JoinError")
       ELSE IF task_load_names.res = "Err"
       THEN main_pc' = "exited" /\ exit' = Exit("Panic", "failed to load stop names!")
       ELSE main_pc' = "join_routes" /\ UNCHANGED exit
    /\ UNCHANGED <<upstream, cli, STOP_ID_NAMES, ROUTES, task_load_names, task_load_routes,
                   task_route_ids, task_stop_eta, query, eta, requests, stdout>>

\* task_load_routes.await?.expect("failed to load routes!")
JoinRoutes ==
    /\ main_pc = "join_routes"
    /\ Joined(task_load_routes)
    /\ IF task_load_routes.res = "Panic"
       THEN main_pc' = "exited" /\ exit' = Exit("Err", "JoinError")
       ELSE IF task_load_routes.res = "Err"
       THEN main_pc' = "exited" /\ exit' = Exit("Panic", "failed to load routes!")
       ELSE main_pc' = "dispatch" /\ UNCHANGED exit
    /\ UNCHANGED <<upstream, cli, STOP_ID_NAMES, ROUTES, task_load_names, task_load_routes,
                   task_route_ids, task_stop_eta, query, eta, requests, stdout>>

\* match cli.command, up to the call of the query
Dispatch ==
    /\ main_pc = "dispatch"
    /\ IF cli.command = "Route"
       THEN /\ query' = "route"
            /\ main_pc' = "search_route_info"
            /\ UNCHANGED <<eta, exit>>
       ELSE IF cli.command = "Eta"
       THEN /\ query' = "eta"
            /\ IF cli.inbound = cli.outbound
               THEN /\ main_pc' = "exited"
                    /\ exit' = Exit("Err", "Please set exactly one of inbound or outbound")
                    /\ UNCHANGED eta
               ELSE /\ main_pc' = "search_route_eta"
                    /\ eta' = [eta EXCEPT !.direction = IF cli.inbound THEN Inbound ELSE Outbound]
                    /\ UNCHANGED exit
       ELSE /\ query' = "all"
            /\ main_pc' = "search_all_route_info"
            /\ UNCHANGED <<eta, exit>>
    /\ UNCHANGED <<upstream, cli, STOP_ID_NAMES, ROUTES, task_load_names, task_load_routes,
                   task_route_ids, task_stop_eta, requests, stdout>>

\* Commands::Route: search_route_info(&route.to_uppercase(), true, None, None)
RouteQuery ==
    /\ main_pc = "search_route_info"
    /\ ~ROUTES.held
    /\ LET found == search_route_info(ROUTES.map, to_uppercase(cli.route), FALSE, <<>>, 0)
       IN  IF ROUTES.poisoned
           THEN main_pc' = "exited" /\ exit' = Exit("Panic", "PoisonError") /\ UNCHANGED stdout
           ELSE IF ~found.ok
           THEN main_pc' = "exited" /\ exit' = Exit("Err", "UnknownRoute") /\ UNCHANGED stdout
           ELSE /\ stdout' = Append(stdout, Table(found.route_info))
                /\ main_pc' = "return"
                /\ UNCHANGED exit
    /\ UNCHANGED <<upstream, cli, STOP_ID_NAMES, ROUTES, task_load_names, task_load_routes,
                   task_route_ids, task_stop_eta, query, eta, requests>>

\* the orders HashMap::iter may visit the keys in
IterOrders(m) ==
    {f \in [1..Cardinality(DOMAIN m) -> DOMAIN m] :
        \A i, j \in 1..Cardinality(DOMAIN m) : f[i] = f[j] => i = j}

RECURSIVE Concat(_, _, _)
Concat(m, order, i) ==
    IF i > Len(order) THEN <<>> ELSE m[order[i]] \o Concat(m, order, i + 1)

\* Commands::All: search_all_route_info()
AllQuery ==
    /\ main_pc = "search_all_route_info"
    /\ ~ROUTES.held
    /\ IF ROUTES.poisoned
       THEN main_pc' = "exited" /\ exit' = Exit("Panic", "PoisonError") /\ UNCHANGED stdout
       ELSE /\ \E order \in IterOrders(ROUTES.map) :
                  stdout' = Append(stdout, Table(Concat(ROUTES.map, order, 1)))
            /\ main_pc' = "return"
            /\ UNCHANGED exit
    /\ UNCHANGED <<upstream, cli, STOP_ID_NAMES, ROUTES, task_load_names, task_load_routes,
                   task_route_ids, task_stop_eta, query, eta, requests>>

\* if cli.debug { println!(..) }; Ok(())
MainReturn ==
    /\ main_pc = "return"
    /\ stdout' = IF cli.debug THEN Append(stdout, DebugLine) ELSE stdout
    /\ main_pc' = "exited"
    /\ exit' = Exit("Ok", "")
    /\ UNCHANGED <<upstream, cli, STOP_ID_NAMES, ROUTES, task_load_names, task_load_routes,
                   task_route_ids, task_stop_eta, query, eta, requests>>

----------------------------------------------------------------------------
(* search_route_eta *)

NoEta == [direction |-> <<>>, route_ids |-> <<>>, api_timestamp |-> 0,
          stop_eta |-> EmptyMap, output |-> <<>>]

\* "make sure route exists", then the two tokio::spawn
EtaCheck ==
    /\ main_pc = "search_route_eta"
    /\ ~ROUTES.held
    /\ LET found == search_route_info(ROUTES.map, to_uppercase(cli.route), TRUE,
                                      eta.direction, cli.service_type)
       IN  IF ROUTES.poisoned
           THEN /\ main_pc' = "exited" /\ exit' = Exit("Panic", "PoisonError")
                /\ UNCHANGED <<task_route_ids, task_stop_eta>>
           ELSE IF ~found.ok
           THEN /\ main_pc' = "exited" /\ exit' = Exit("Err", "UnknownRouteVariant")
                /\ UNCHANGED <<task_route_ids, task_stop_eta>>
           ELSE /\ task_route_ids' = Task("send")
                /\ task_stop_eta' = Task("send")
                /\ main_pc' = "join_route_ids"
                /\ UNCHANGED exit
    /\ UNCHANGED <<upstream, cli, STOP_ID_NAMES, ROUTES, task_load_names, task_load_routes,
                   query, eta, requests, stdout>>

\* task_route_ids: GET .../route-stop/{route}/{direction}/{service_type}
FetchRouteStop ==
    /\ task_route_ids.pc = "send"
    /\ requests' = requests \cup {ROUTE_STOP_URL}
    /\ task_route_ids' = Finished(IF upstream.route_stop.ok THEN "Ok" ELSE "Err")
    /\ UNCHANGED <<upstream, cli, STOP_ID_NAMES, ROUTES, task_load_names, task_load_routes,
                   task_stop_eta, main_pc, query, eta, stdout, exit>>

\* task_stop_eta: GET .../route-eta/{route}/{service_type}
FetchRouteEta ==
    /\ task_stop_eta.pc = "send"
    /\ requests' = requests \cup {ROUTE_ETA_URL}
    /\ task_stop_eta' = Finished(IF upstream.route_eta.ok THEN "Ok" ELSE "Err")
    /\ UNCHANGED <<upstream, cli, STOP_ID_NAMES, ROUTES, task_load_names, task_load_routes,
                   task_route_ids, main_pc, query, eta, stdout, exit>>

\* task_route_ids.await?.unwrap()
JoinRouteIds ==
    /\ main_pc = "join_route_ids"
    /\ Joined(task_route_ids)
    /\ IF task_route_ids.res = "Err"
       THEN main_pc' = "exited" /\ exit' = Exit("Panic", "unwrap on Err")
       ELSE main_pc' = "join_stop_eta" /\ UNCHANGED exit
    /\ UNCHANGED <<upstream, cli, STOP_ID_NAMES, ROUTES, task_load_names, task_load_routes,
                   task_route_ids, task_stop_eta, query, eta, requests, stdout>>

\* task_stop_eta.await?.unwrap()
JoinStopEta ==
    /\ main_pc = "join_stop_eta"
    /\ Joined(task_stop_eta)
    /\ IF task_stop_eta.res = "Err"
       THEN main_pc' = "exited" /\ exit' = Exit("Panic", "unwrap on Err")
       ELSE main_pc' = "route_ids" /\ UNCHANGED exit
    /\ UNCHANGED <<upstream, cli, STOP_ID_NAMES, ROUTES, task_load_names, task_load_routes,
                   task_route_ids, task_stop_eta, query, eta, requests, stdout>>

\* the unwraps of the fold: seq is a string that parses, stop is a string
route_stop_ok(data) ==
    data.seq.t = "str" /\ parse_i64(data.seq.s).ok /\ data.stop.t = "str"

\* the fold over body_route_ids["data"]: (seq, stop_id) in the order of the feed
route_ids_of(entries) ==
    [i \in 1..Len(entries) |-> <<parse_i64(entries[i].seq.s).v, entries[i].stop.s>>]

ParseRouteIds ==
    /\ main_pc = "route_ids"
    /\ LET entries == DataOf(upstream.route_stop)
       IN  IF \A i \in 1..Len(entries) : route_stop_ok(entries[i])
           THEN /\ eta' = [eta EXCEPT !.route_ids = route_ids_of(entries)]
                /\ main_pc' = "api_timestamp"
                /\ UNCHANGED exit
           ELSE /\ main_pc' = "exited" /\ exit' = Exit("Panic", "unwrap on None")
                /\ UNCHANGED eta
    /\ UNCHANGED <<upstream, cli, STOP_ID_NAMES, ROUTES, task_load_names, task_load_routes,
                   task_route_ids, task_stop_eta, query, requests, stdout>>

\* mutant of api_timestamp_of: unwrap_or(0) in place of `?`
api_timestamp_or_zero(body) ==
    IF parse_timestmap(body.generated_timestamp).ok
    THEN parse_timestmap(body.generated_timestamp)
    ELSE [ok |-> TRUE, v |-> 0]

\* parse_timestmap(&body_stop_eta["generated_timestamp"])?
api_timestamp_of(body) == parse_timestmap(body.generated_timestamp)

ParseApiTimestamp ==
    /\ main_pc = "api_timestamp"
    /\ LET parsed == api_timestamp_of(upstream.route_eta)
       IN  IF parsed.ok
           THEN /\ eta' = [eta EXCEPT !.api_timestamp = parsed.v]
                /\ main_pc' = "stop_eta"
                /\ UNCHANGED exit
           ELSE /\ main_pc' = "exited" /\ exit' = Exit("Err", "InvalidFeedTimestamp")
                /\ UNCHANGED eta
    /\ UNCHANGED <<upstream, cli, STOP_ID_NAMES, ROUTES, task_load_names, task_load_routes,
                   task_route_ids, task_stop_eta, query, requests, stdout>>

\* the for_each over body_stop_eta["data"], after its first n entries.
\* [ok, map]: ok is false where an unwrap panics
RECURSIVE stop_eta_of(_, _, _, _)
stop_eta_of(entries, n, direction, api_timestamp) ==
    IF n = 0 THEN [ok |-> TRUE, map |-> EmptyMap]
    ELSE LET before == stop_eta_of(entries, n - 1, direction, api_timestamp)
             data == entries[n]
         IN  IF ~before.ok THEN before
             ELSE IF data.dir.t # "str" THEN [ok |-> FALSE, map |-> before.map]
             ELSE IF ~dir_match(direction, data.dir.s) THEN before
             ELSE IF data.seq.t # "num" \/ data.eta_seq.t # "num"
             THEN [ok |-> FALSE, map |-> before.map]
             ELSE [ok |-> TRUE,
                   map |-> Insert(before.map, <<data.seq.n, data.eta_seq.n>>,
                                  eta_repr(parse_timestmap(data.eta), api_timestamp))]

BuildStopEta ==
    /\ main_pc = "stop_eta"
    /\ LET entries == DataOf(upstream.route_eta)
           built == stop_eta_of(entries, Len(entries), eta.direction, eta.api_timestamp)
       IN  IF built.ok
           THEN /\ eta' = [eta EXCEPT !.stop_eta = built.map]
                /\ main_pc' = "output"
                /\ UNCHANGED exit
           ELSE /\ main_pc' = "exited" /\ exit' = Exit("Panic", "unwrap on None")
                /\ UNCHANGED eta
    /\ UNCHANGED <<upstream, cli, STOP_ID_NAMES, ROUTES, task_load_names, task_load_routes,
                   task_route_ids, task_stop_eta, query, requests, stdout>>

\* stop_eta.get(&(seq, k)).unwrap_or(empty_eta)
eta_cell(stop_eta, seq, k) ==
    IF HasKey(stop_eta, <<seq, k>>) THEN stop_eta[<<seq, k>>] ELSE EmptyString

RouteEtaInfo(names, stop_eta, route_id) ==
    [seq |-> to_string(route_id[1]),
     stop_name |-> names[route_id[2]].stop_name,
     t1 |-> eta_cell(stop_eta, route_id[1], 1),
     t2 |-> eta_cell(stop_eta, route_id[1], 2),
     t3 |-> eta_cell(stop_eta, route_id[1], 3)]

\* mutant of output_of: a route-stop entry with an unknown stop is skipped
output_skipping_unknown(names, stop_eta, route_ids) ==
    LET known == SelectSeq(route_ids, LAMBDA r : HasKey(names, r[2]))
    IN  [ok |-> TRUE,
         rows |-> [i \in 1..Len(known) |-> RouteEtaInfo(names, stop_eta, known[i])]]

\* the loop `for (ref_seq, stop_id) in &route_ids`.  [ok, rows]: ok is false where
\* mutex_stop_id_names.get(stop_id).unwrap() panics
output_of(names, stop_eta, route_ids) ==
    IF \A i \in 1..Len(route_ids) : HasKey(names, route_ids[i][2])
    THEN [ok |-> TRUE,
          rows |-> [i \in 1..Len(route_ids) |-> RouteEtaInfo(names, stop_eta, route_ids[i])]]
    ELSE [ok |-> FALSE, rows |-> <<>>]

\* STOP_ID_NAMES.lock().unwrap(), then the loop
JoinRows ==
    /\ main_pc = "output"
    /\ ~STOP_ID_NAMES.held
    /\ LET built == output_of(STOP_ID_NAMES.map, eta.stop_eta, eta.route_ids)
       IN  IF STOP_ID_NAMES.poisoned
           THEN /\ main_pc' = "exited" /\ exit' = Exit("Panic", "PoisonError")
                /\ UNCHANGED <<eta, STOP_ID_NAMES>>
           ELSE IF ~built.ok
           THEN /\ main_pc' = "exited" /\ exit' = Exit("Panic", "unwrap on None")
                /\ STOP_ID_NAMES' = [STOP_ID_NAMES EXCEPT !.poisoned = TRUE]
                /\ UNCHANGED eta
           ELSE /\ eta' = [eta EXCEPT !.output = built.rows]
                /\ STOP_ID_NAMES' = [STOP_ID_NAMES EXCEPT !.held = TRUE]
                /\ main_pc' = "println"
                /\ UNCHANGED exit
    /\ UNCHANGED <<upstream, cli, ROUTES, task_load_names, task_load_routes,
                   task_route_ids, task_stop_eta, query, requests, stdout>>

\* println!("{}", table); Ok(()): the guard is dropped
PrintEta ==
    /\ main_pc = "println"
    /\ stdout' = Append(stdout, Table(eta.output))
    /\ STOP_ID_NAMES' = [STOP_ID_NAMES EXCEPT !.held = FALSE]
    /\ main_pc' = "return"
    /\ UNCHANGED <<upstream, cli, ROUTES, task_load_names, task_load_routes,
                   task_route_ids, task_stop_eta, query, eta, requests, exit>>

----------------------------------------------------------------------------
(* What the upstream answers, and the command lines *)

SeqsUpTo(S, n) == UNION {[1..k -> S] : k \in 0..n}

Unreachable == [ok |-> FALSE, is_array |-> FALSE, data |-> <<>>]
NotArray == [ok |-> TRUE, is_array |-> FALSE, data |-> <<>>]
Body(data) == [ok |-> TRUE, is_array |-> TRUE, data |-> data]
EtaBody(generated_timestamp, data) ==
    [ok |-> TRUE, is_array |-> TRUE, data |-> data,
     generated_timestamp |-> generated_timestamp]
EtaUnreachable ==
    [ok |-> FALSE, is_array |-> FALSE, data |-> <<>>, generated_timestamp |-> TsNull]

StopId(i) == <<"s", Digits[i + 1]>>
StopName(i) == <<"N", Digits[i + 1]>>
StopRecord(i) == [stop |-> JStr(StopId(i)), name_tc |-> JStr(StopName(i))]
NamelessStop(i) == [stop |-> JStr(StopId(i)), name_tc |-> JNull]
NumberedStop(i) == [stop |-> JNum(i), name_tc |-> JStr(StopName(i))]

RouteRecord(route, service_type, bound) ==
    [route |-> JStr(route), service_type |-> JStr(service_type), bound |-> JStr(bound),
     orig_tc |-> JStr(<<"f", "r", "o", "m">> \o bound),
     dest_tc |-> JStr(<<"t", "o">> \o bound)]

RouteStopEntry(seq, i) == [seq |-> JStr(seq), stop |-> JStr(StopId(i))]
ArrivalEntry(dir, seq, eta_seq, eta_timestamp) ==
    [dir |-> JStr(dir), seq |-> JNum(seq), eta_seq |-> JNum(eta_seq), eta |-> eta_timestamp]

Cli(command, route, inbound, outbound, service_type, debug) ==
    [command |-> command, route |-> route, inbound |-> inbound, outbound |-> outbound,
     service_type |-> service_type, debug |-> debug]
RouteCmd(route) == Cli("Route", route, FALSE, FALSE, 1, FALSE)
EtaCmd(route, inbound, outbound, service_type) ==
    Cli("Eta", route, inbound, outbound, service_type, FALSE)
AllCmd == Cli("All", <<>>, FALSE, FALSE, 1, FALSE)

Upstream(stop, route, route_stop, route_eta) ==
    [stop |-> stop, route |-> route, route_stop |-> route_stop, route_eta |-> route_eta]
Scenario(u, c) == [upstream |-> u, cli |-> c]

\* the scenario of the specification's section 8: two stops, route 1A both ways,
\* a bus due at the first stop 125 s after the feed was generated
BaseStops == Body(<<StopRecord(1), StopRecord(2)>>)
BaseRoutes == Body(<<RouteRecord(<<"1", "A">>, <<"1">>, <<"O">>),
                     RouteRecord(<<"1", "A">>, <<"1">>, <<"I">>)>>)
BaseRouteStops == Body(<<RouteStopEntry(<<"1">>, 1), RouteStopEntry(<<"2">>, 2)>>)
BaseEta == EtaBody(TsRfc(1000, 0), <<ArrivalEntry(<<"O">>, 1, 1, TsRfc(1125, 0))>>)
BaseUpstream == Upstream(BaseStops, BaseRoutes, BaseRouteStops, BaseEta)
BaseClis == {RouteCmd(<<"1", "a">>), EtaCmd(<<"1", "a">>, FALSE, TRUE, 1), AllCmd}
BaseScenarios == {Scenario(BaseUpstream, c) : c \in BaseClis}

\* stop listings: record i is stop i, whole or malformed
StopListings ==
    {l \in SeqsUpTo(UNION {{StopRecord(i), NamelessStop(i), NumberedStop(i)} : i \in 1..MaxStops},
                    MaxStops) :
        \A i \in 1..Len(l) : l[i] \in {StopRecord(i), NamelessStop(i), NumberedStop(i)}}
StopBodies == {Unreachable, NotArray} \cup {Body(l) : l \in StopListings}

\* route listings of the orchestration scenarios
PlainRouteRecords ==
    {RouteRecord(<<"1", "A">>, <<"1">>, <<"O">>),
     RouteRecord(<<"1", "A">>, <<"2">>, <<"I">>),
     RouteRecord(<<"1", "A">>, <<"x">>, <<"O">>)}
PlainRouteBodies ==
    {Unreachable, NotArray} \cup {Body(l) : l \in SeqsUpTo(PlainRouteRecords, MaxRoutes)}

\* the command lines of the orchestration scenarios
MainClis ==
    {Cli("Route", <<"1", "a">>, FALSE, FALSE, 1, d) : d \in BOOLEAN}
    \cup {Cli("Eta", <<"1", "a">>, i, o, t, d) :
            i \in BOOLEAN, o \in BOOLEAN, t \in {1, 2}, d \in BOOLEAN}
    \cup {Cli("Eta", <<"9", "z">>, FALSE, TRUE, 1, FALSE),
          RouteCmd(<<"9", "z">>), Cli("All", <<>>, FALSE, FALSE, 1, TRUE), AllCmd}

\* the feeds of the orchestration scenarios
MainRouteStops ==
    {Unreachable, NotArray, Body(<<>>), BaseRouteStops,
     Body(<<RouteStopEntry(<<"1">>, 1), RouteStopEntry(<<"2">>, 3)>>),
     Body(<<RouteStopEntry(<<"1">>, 3), RouteStopEntry(<<"2">>, 2)>>),
     Body(<<RouteStopEntry(<<"1">>, 1), [seq |-> JNum(2), stop |-> JStr(StopId(2))]>>)}
MainEtas ==
    {EtaUnreachable, BaseEta,
     EtaBody(TsNull, <<>>), EtaBody(TsText, <<>>), EtaBody(TsRfc(1000, 0), <<>>),
     EtaBody(TsNull, BaseEta.data), EtaBody(TsNum, BaseEta.data), EtaBody(TsText, BaseEta.data),
     EtaBody(TsRfc(1000, 0), <<[dir |-> JNull, seq |-> JNum(1), eta_seq |-> JNum(1),
                                eta |-> TsNull]>>)}

MainScenarios ==
    BaseScenarios
    \cup {Scenario(Upstream(s, r, BaseRouteStops, BaseEta), c) :
            s \in StopBodies, r \in PlainRouteBodies, c \in BaseClis}
    \cup {Scenario(Upstream(BaseStops, BaseRoutes, rs, e), c) :
            rs \in MainRouteStops, e \in MainEtas, c \in MainClis}

\* route listings of the route and listing scenarios: feeds in either case
RichRouteRecords ==
    {RouteRecord(r, <<"1">>, b) : r \in {<<"1", "A">>, <<"1", "a">>, <<"2", "B">>},
                                  b \in {<<"O">>, <<"I">>}}
    \cup {RouteRecord(<<"1", "A">>, <<"2">>, <<"X">>)}
RouteScenarios ==
    BaseScenarios
    \cup {Scenario(Upstream(BaseStops, Body(l), BaseRouteStops, BaseEta), c) :
            l \in SeqsUpTo(RichRouteRecords, MaxRoutes),
            c \in {RouteCmd(<<"1", "a">>), RouteCmd(<<"1", "A">>), RouteCmd(<<"2", "b">>),
                   RouteCmd(<<"9", "z">>), AllCmd}}

\* feeds of the eta scenarios
RichRouteStopEntries ==
    {RouteStopEntry(seq, i) : seq \in {<<"1">>, <<"2">>, <<"1", "0">>}, i \in {1, 2}}
RichArrivals ==
    {ArrivalEntry(dir, p[1], p[2], e) :
        dir \in {<<"O">>, <<"I">>, <<"X">>},
        p \in {<<1, 1>>, <<2, 3>>, <<3, 2>>},
        e \in {TsNull, TsRfc(1125, 0)}}
TwoWayEta ==
    EtaBody(TsRfc(1000, 0), <<ArrivalEntry(<<"O">>, 1, 1, TsRfc(1125, 0)),
                              ArrivalEntry(<<"I">>, 1, 1, TsRfc(995, 0)),
                              ArrivalEntry(<<"I">>, 2, 2, TsRfc(1060, 0)),
                              ArrivalEntry(<<"O">>, 10, 3, TsRfc(1061, 0))>>)
EtaClis == {EtaCmd(<<"1", "a">>, FALSE, TRUE, 1), EtaCmd(<<"1", "a">>, TRUE, FALSE, 1)}
EtaScenarios ==
    BaseScenarios
    \cup {Scenario(Upstream(BaseStops, BaseRoutes, Body(l), e), c) :
            l \in SeqsUpTo(RichRouteStopEntries, MaxRouteStops),
            e \in {BaseEta, TwoWayEta}, c \in EtaClis}
    \cup {Scenario(Upstream(BaseStops, BaseRoutes, BaseRouteStops, EtaBody(TsRfc(1000, 0), l)), c) :
            l \in SeqsUpTo(RichArrivals, MaxEtaEntries), c \in EtaClis}

\* timestamps of the formatter scenarios: one arrival, delta seconds after the feed
Deltas == (-5 .. 60 * MaxMinutes + 5) \cup {3599, 3600, 3601, 59999, 60000, 86400}
Offsets == {0, 28800}
ReferenceTimestamps == {TsRfc(1000 + o, o) : o \in Offsets}
ArrivalTimestamps ==
    {TsNull, TsNum, TsText} \cup {TsRfc(1000 + d + o, o) : d \in Deltas, o \in Offsets}
FormatScenarios ==
    BaseScenarios
    \cup {Scenario(Upstream(BaseStops, BaseRoutes, Body(<<RouteStopEntry(<<"1">>, 1)>>),
                            EtaBody(ref, <<ArrivalEntry(<<"O">>, 1, 1, arrival)>>)),
                   EtaCmd(<<"1", "a">>, FALSE, TRUE, 1)) :
            ref \in ReferenceTimestamps, arrival \in ArrivalTimestamps}

----------------------------------------------------------------------------
(* Specification *)

InitWith(scenarios) ==
    /\ \E sc \in scenarios : upstream = sc.upstream /\ cli = sc.cli
    /\ STOP_ID_NAMES = NewMutex
    /\ ROUTES = NewMutex
    /\ task_load_names = Task("send")
    /\ task_load_routes = Task("send")
    /\ task_route_ids = Task("idle")
    /\ task_stop_eta = Task("idle")
    /\ main_pc = "join_names"
    /\ query = "none"
    /\ eta = NoEta
    /\ requests = {}
    /\ stdout = <<>>
    /\ exit = Running

Init == InitWith(MainScenarios)

Next ==
    \/ LoadNamesSend \/ LoadNamesLock \/ LoadNamesInsert \/ LoadNamesReturn
    \/ LoadRoutesSend \/ LoadRoutesLock \/ LoadRoutesInsert \/ LoadRoutesReturn
    \/ JoinNames \/ JoinRoutes \/ Dispatch
    \/ RouteQuery \/ AllQuery \/ MainReturn
    \/ EtaCheck \/ FetchRouteStop \/ FetchRouteEta \/ JoinRouteIds \/ JoinStopEta
    \/ ParseRouteIds \/ ParseApiTimestamp \/ BuildStopEta \/ JoinRows \/ PrintEta

Spec == Init /\ [][Next]_vars

\* the same program over route listings, over eta feeds and over timestamps
InitRoutes == InitWith(RouteScenarios)
SpecRoutes == InitRoutes /\ [][Next]_vars
InitEta == InitWith(EtaScenarios)
SpecEta == InitEta /\ [][Next]_vars
InitFormat == InitWith(FormatScenarios)
SpecFormat == InitFormat /\ [][Next]_vars

----------------------------------------------------------------------------
(* Claims on the orchestration *)

FetchUrls == {ROUTE_STOP_URL, ROUTE_ETA_URL}
Failed == main_pc = "exited" /\ exit.kind \in {"Err", "Panic"}
RequestedDirection == IF cli.inbound THEN Inbound ELSE Outbound

\* the Route Directory holds the variant the eta query asks for
VariantLoaded ==
    \E key \in DOMAIN ROUTES.map : \E i \in 1..Len(ROUTES.map[key]) :
        /\ ROUTES.map[key][i].route = to_uppercase(cli.route)
        /\ ROUTES.map[key][i].direction = RequestedDirection
        /\ ROUTES.map[key][i].service_type = cli.service_type

\* C1: the route-stop and the arrival feed are requested only in an eta query
\* whose variant the Route Directory holds; an eta query for a variant it does
\* not hold ends with the unknown-route-variant error and neither request sent.
C1_FetchOnlyAfterExistenceCheck ==
    /\ (requests \cap FetchUrls # {} \/ task_route_ids.pc # "idle" \/ task_stop_eta.pc # "idle")
          => (query = "eta" /\ VariantLoaded)
    /\ (query = "eta" /\ cli.inbound # cli.outbound /\ ~VariantLoaded)
          => /\ requests \cap FetchUrls = {}
             /\ main_pc \in {"search_route_eta", "exited"}
             /\ main_pc = "exited" => exit = Exit("Err", "UnknownRouteVariant")

\* an eta query for a service type the loaded route does not have was refused
C1_Witness ==
    /\ query = "eta"
    /\ DOMAIN ROUTES.map # {}
    /\ ~VariantLoaded
    /\ exit = Exit("Err", "UnknownRouteVariant")
    /\ requests = {STOP_URL, ROUTE_URL}

LoadFailed ==
    \/ task_load_names.res \in {"Err", "Panic"}
    \/ task_load_routes.res \in {"Err", "Panic"}
Dispatched == query # "none" \/ main_pc \notin {"join_names", "join_routes", "exited"}

\* C2: main reaches the dispatch only when both load tasks have finished with
\* Ok, so that no load holds or writes a directory then; when a load has failed
\* no query is dispatched, nothing is printed and main ends with the failure.
C2_DispatchAfterBothLoads ==
    /\ Dispatched
          => /\ task_load_names = Finished("Ok")
             /\ task_load_routes = Finished("Ok")
             /\ ~ROUTES.held /\ ~ROUTES.poisoned
             /\ STOP_ID_NAMES.held => main_pc = "println"
    /\ LoadFailed
          => /\ ~Dispatched
             /\ stdout = <<>>
             /\ requests \cap FetchUrls = {}
             /\ main_pc = "exited" => exit.kind \in {"Err", "Panic"}

\* a query was dispatched over two loaded directories
C2_Witness ==
    /\ query # "none"
    /\ DOMAIN ROUTES.map # {}
    /\ DOMAIN STOP_ID_NAMES.map # {}
    /\ exit.kind = "Ok"

RouteStopFeed == DataOf(upstream.route_stop)
UnknownStopInFeed ==
    \E i \in 1..Len(RouteStopFeed) :
        RouteStopFeed[i].stop.t = "str" /\ ~HasKey(STOP_ID_NAMES.map, RouteStopFeed[i].stop.s)

\* C3: an eta query that fails has printed nothing; one that printed, printed
\* one table with one row for each entry of the route-stop feed, in its order,
\* each with the name of its stop; with a stop id the Stop Directory does not
\* hold, an invalid feed timestamp or a failed fetch, the query fails.
C3_AllRowsOrNothing ==
    query = "eta" =>
        /\ Failed => stdout = <<>>
        /\ stdout # <<>>
              => /\ stdout[1].kind = "table"
                 /\ \A k \in 2..Len(stdout) : stdout[k].kind # "table"
                 /\ Len(stdout[1].rows) = Len(RouteStopFeed)
                 /\ \A i \in 1..Len(RouteStopFeed) :
                       /\ HasKey(STOP_ID_NAMES.map, RouteStopFeed[i].stop.s)
                       /\ stdout[1].rows[i].stop_name =
                              STOP_ID_NAMES.map[RouteStopFeed[i].stop.s].stop_name
                       /\ stdout[1].rows[i].seq = RouteStopFeed[i].seq.s
        /\ (main_pc = "exited" /\ cli.inbound # cli.outbound /\ VariantLoaded
            /\ (\/ UnknownStopInFeed
                \/ ~parse_timestmap(upstream.route_eta.generated_timestamp).ok
                \/ ~upstream.route_stop.ok
                \/ ~upstream.route_eta.ok))
              => Failed

\* an eta query met a stop id the Stop Directory does not hold, after a known one
C3_Witness ==
    /\ query = "eta"
    /\ Failed
    /\ Len(RouteStopFeed) = 2
    /\ HasKey(STOP_ID_NAMES.map, RouteStopFeed[1].stop.s)
    /\ ~HasKey(STOP_ID_NAMES.map, RouteStopFeed[2].stop.s)
    /\ STOP_ID_NAMES.poisoned
    /\ stdout = <<>>

BadFeedTimestamp ==
    upstream.route_eta.ok /\ ~parse_timestmap(upstream.route_eta.generated_timestamp).ok

\* C5: with a feed timestamp that is absent or does not parse, an eta query never
\* reaches the countdowns, prints nothing and ends with an error, with or without
\* arrival entries; a route or a listing query never requests the arrival feed.
C5_InvalidFeedTimestampFails ==
    /\ (query = "eta" /\ BadFeedTimestamp)
          => /\ main_pc \notin {"stop_eta", "output", "println", "return"}
             /\ eta.stop_eta = EmptyMap
             /\ eta.output = <<>>
             /\ stdout = <<>>
             /\ main_pc = "exited" => exit.kind \in {"Err", "Panic"}
    /\ query \in {"route", "all"}
          => /\ ROUTE_ETA_URL \notin requests
             /\ task_stop_eta.pc = "idle"
             /\ eta = NoEta
             /\ (main_pc = "exited" /\ exit.kind # "Ok") => exit.error # "InvalidFeedTimestamp"

\* an eta query over a feed with arrival entries ended on its timestamp
C5_Witness ==
    /\ query = "eta"
    /\ BadFeedTimestamp
    /\ upstream.route_eta.data # <<>>
    /\ eta.route_ids # <<>>
    /\ exit = Exit("Err", "InvalidFeedTimestamp")

MalformedStopListing ==
    /\ upstream.stop.ok
    /\ \E i \in 1..Len(DataOf(upstream.stop)) :
          \/ DataOf(upstream.stop)[i].stop.t # "str"
          \/ DataOf(upstream.stop)[i].name_tc.t # "str"

\* C7: with a malformed record anywhere in the stop listing, the stop load never
\* ends with Ok: it panics and leaves STOP_ID_NAMES poisoned, so that no lock of
\* it succeeds; no query is dispatched, nothing is printed, and main fails.
C7_MalformedStopFailsLoad ==
    MalformedStopListing
        => /\ task_load_names.res # "Ok"
           /\ task_load_names.pc = "finished"
                 => (task_load_names.res = "Panic" /\ STOP_ID_NAMES.poisoned)
           /\ query = "none"
           /\ main_pc \in {"join_names", "exited"}
           /\ stdout = <<>>
           /\ requests \cap FetchUrls = {}
           /\ main_pc = "exited" => exit.kind \in {"Err", "Panic"}

\* the stop load stopped on a bad record after storing a good one
C7_Witness ==
    /\ MalformedStopListing
    /\ DOMAIN STOP_ID_NAMES.map # {}
    /\ STOP_ID_NAMES.poisoned
    /\ task_load_names = Finished("Panic")
    /\ exit = Exit("Err", "JoinError")

----------------------------------------------------------------------------
(* Claims on the eta table *)

Printed == stdout # <<>> /\ stdout[1].kind = "table"
Arrivals == DataOf(upstream.route_eta)
Instant(ts) == ts.wall - ts.off
Parseable(ts) == ts.t = "str" /\ ts.rfc
Cell(row, k) == IF k = 1 THEN row.t1 ELSE IF k = 2 THEN row.t2 ELSE row.t3
StripLeft(s) == SelectSeq(s, LAMBDA c : c # " ")

\* a cell read back as a countdown: the digits before "m", and those between
\* "m " and the closing "s".  [ok, minutes, seconds]
ReadCountdown(cell) ==
    LET ms == {i \in 1..Len(cell) : cell[i] = "m"}
        im == CHOOSE i \in ms : TRUE
        minutes == StripLeft(SubSeq(cell, 1, im - 1))
        seconds == StripLeft(SubSeq(cell, im + 2, Len(cell) - 1))
        ok == /\ Cardinality(ms) = 1
              /\ Len(cell) >= im + 3
              /\ cell[im + 1] = " "
              /\ cell[Len(cell)] = "s"
              /\ minutes # <<>> /\ \A i \in 1..Len(minutes) : IsDigit(minutes[i])
              /\ seconds # <<>> /\ \A i \in 1..Len(seconds) : IsDigit(seconds[i])
    IN  IF ms # {} /\ ok
        THEN [ok |-> TRUE, minutes |-> DigitsValue(minutes), seconds |-> DigitsValue(seconds)]
        ELSE [ok |-> FALSE, minutes |-> 0, seconds |-> 0]

\* what C4 says of the cell of one arrival timestamp under one reference
CellAsClaimed(cell, arrival, reference) ==
    IF ~Parseable(arrival) THEN cell = <<>>
    ELSE LET delta == Instant(arrival) - Instant(reference)
         IN  IF delta <= 0 THEN cell = LEAVING
             ELSE /\ ReadCountdown(cell).ok
                  /\ ReadCountdown(cell).minutes = delta \div 60
                  /\ ReadCountdown(cell).seconds = delta % 60
                  /\ ReadCountdown(cell).minutes * 60 + ReadCountdown(cell).seconds = delta
                  /\ ReadCountdown(cell).seconds \in 0..59

OneArrival ==
    /\ query = "eta"
    /\ Len(Arrivals) = 1
    /\ Len(RouteStopFeed) >= 1
    /\ Arrivals[1].dir = JStr(<<"O">>) /\ ~cli.inbound
    /\ Arrivals[1].seq = JNum(1) /\ Arrivals[1].eta_seq = JNum(1)
    /\ RouteStopFeed[1].seq = JStr(<<"1">>)

\* C4: the cell of an arrival is empty when its timestamp is absent or does not
\* parse (and the query still ends with Ok), LEAVING when it is not after the
\* feed's timestamp, and otherwise reads delta div 60 minutes and delta mod 60
\* seconds; both in the map of cells and in the printed row.
C4_CellOfArrival ==
    OneArrival
        => /\ HasKey(eta.stop_eta, <<1, 1>>)
                 => CellAsClaimed(eta.stop_eta[<<1, 1>>], Arrivals[1].eta,
                                  upstream.route_eta.generated_timestamp)
           /\ Printed
                 => CellAsClaimed(stdout[1].rows[1].t1, Arrivals[1].eta,
                                  upstream.route_eta.generated_timestamp)
           /\ (main_pc = "exited" /\ Len(RouteStopFeed) = 1) => (exit.kind = "Ok" /\ Printed)

\* 125 s between timestamps of different offsets is printed as 2 minutes 5 seconds
C4_Witness ==
    /\ OneArrival
    /\ Printed
    /\ Arrivals[1].eta.off # upstream.route_eta.generated_timestamp.off
    /\ Instant(Arrivals[1].eta) - Instant(upstream.route_eta.generated_timestamp) = 125
    /\ stdout[1].rows[1].t1 = <<" ", " ", "2", "m", " ", " ", "5", "s">>

RequestedToken == IF cli.inbound THEN <<"I">> ELSE <<"O">>

\* the arrival entries of the requested direction for a sequence number and a slot
EventsFor(seq, k) ==
    {j \in 1..Len(Arrivals) :
        /\ Arrivals[j].dir.s = RequestedToken
        /\ Arrivals[j].seq.n = seq
        /\ Arrivals[j].eta_seq.n = k}

\* C6: the printed table has one row for each route-stop entry, in the order of
\* the feed; slot k of a row is the formatted arrival of an entry of the requested
\* direction with the row's sequence number and slot k, and empty without one.
C6_JoinByDirectionSequenceSlot ==
    (query = "eta" /\ Printed)
        => /\ Len(stdout[1].rows) = Len(RouteStopFeed)
           /\ \A i \in 1..Len(RouteStopFeed) :
                 /\ parse_i64(stdout[1].rows[i].seq) = parse_i64(RouteStopFeed[i].seq.s)
                 /\ stdout[1].rows[i].stop_name =
                        STOP_ID_NAMES.map[RouteStopFeed[i].stop.s].stop_name
                 /\ \A k \in 1..3 :
                       LET events == EventsFor(parse_i64(RouteStopFeed[i].seq.s).v, k)
                       IN  IF events = {}
                           THEN Cell(stdout[1].rows[i], k) = <<>>
                           ELSE \E j \in events :
                                   CellAsClaimed(Cell(stdout[1].rows[i], k), Arrivals[j].eta,
                                                 upstream.route_eta.generated_timestamp)

\* a printed row whose slot has an arrival of the other direction only, and
\* another slot filled from the requested one
C6_Witness ==
    /\ query = "eta"
    /\ Printed
    /\ \E i \in 1..Len(RouteStopFeed) : \E k \in 1..3 :
          /\ EventsFor(parse_i64(RouteStopFeed[i].seq.s).v, k) = {}
          /\ \E j \in 1..Len(Arrivals) :
                /\ Arrivals[j].seq.n = parse_i64(RouteStopFeed[i].seq.s).v
                /\ Arrivals[j].eta_seq.n = k
                /\ Parseable(Arrivals[j].eta)
    /\ \E i \in 1..Len(RouteStopFeed) : \E k \in 1..3 : Cell(stdout[1].rows[i], k) # <<>>

\* insertion of x into a list sorted by sequence number, after its equals
RECURSIVE InsertBySeq(_, _)
InsertBySeq(sorted, x) ==
    IF sorted = <<>> THEN <<x>>
    ELSE IF x[1] < sorted[1][1] THEN <<x>> \o sorted
    ELSE <<sorted[1]>> \o InsertBySeq(Tail(sorted), x)

RECURSIVE AscendingBySeq(_, _)
AscendingBySeq(list, n) ==
    IF n = 0 THEN <<>> ELSE InsertBySeq(AscendingBySeq(list, n - 1), list[n])

\* C9: the route-stop sequence the eta query uses, and the rows it prints, are
\* the feed's entries in ascending order of sequence number, equal numbers in
\* feed order, none dropped; an empty feed gives an empty sequence and no error.
C9_RouteStopsAscending ==
    (query = "eta" /\ main_pc \in {"api_timestamp", "stop_eta", "output", "println", "return"})
        => LET claimed == AscendingBySeq(route_ids_of(RouteStopFeed), Len(RouteStopFeed))
           IN  /\ eta.route_ids = claimed
               /\ Printed
                     => /\ Len(stdout[1].rows) = Len(claimed)
                        /\ \A i \in 1..Len(claimed) :
                              stdout[1].rows[i].seq = to_string(claimed[i][1])

----------------------------------------------------------------------------
(* Claims on the route directory *)

\* the variants of the route listing, in its order
LoadedVariants == [i \in 1..Len(DataOf(upstream.route)) |-> RouteInfoOf(DataOf(upstream.route)[i])]
MatchingVariants ==
    SelectSeq(LoadedVariants, LAMBDA r : to_uppercase(r.route) = to_uppercase(cli.route))

SameBag(s, t) ==
    /\ Len(s) = Len(t)
    /\ \E p \in [1..Len(s) -> 1..Len(s)] :
          /\ \A i, j \in 1..Len(s) : p[i] = p[j] => i = j
          /\ \A i \in 1..Len(s) : s[i] = t[p[i]]

\* C8: a route query prints exactly the loaded variants whose route number is
\* the requested one up to case, and ends with the unknown-route error exactly
\* when there is none.
C8_RouteQueryFindsAllMatches ==
    (query = "route" /\ main_pc \in {"return", "exited"})
        => IF MatchingVariants = <<>>
           THEN stdout = <<>> /\ exit = Exit("Err", "UnknownRoute")
           ELSE Printed /\ SameBag(stdout[1].rows, MatchingVariants)

CharOrder == Digits \o UpperCase \o LowerCase
Rank(c) == CHOOSE i \in 1..Len(CharOrder) : CharOrder[i] = c
RECURSIVE TextLeq(_, _)
TextLeq(a, b) ==
    IF a = <<>> THEN TRUE
    ELSE IF b = <<>> THEN FALSE
    ELSE IF a[1] = b[1] THEN TextLeq(Tail(a), Tail(b))
    ELSE Rank(a[1]) < Rank(b[1])

\* C10: the listing prints every loaded variant once, the variants of a route
\* number together, and the route numbers in ascending order.
C10_ListingOrderedByRoute ==
    (query = "all" /\ Printed)
        => /\ SameBag(stdout[1].rows, LoadedVariants)
           /\ \A i, j \in 1..Len(stdout[1].rows) :
                 i < j => TextLeq(stdout[1].rows[i].route, stdout[1].rows[j].route)

====
